---- MODULE Spec2Model ----
(***************************************************************************)
(* BAMetrics: named, composable boolean filters over alignment records,    *)
(* the in-memory filter catalog (Config), and the command-line operations  *)
(* that load, change and save the catalog file.                            *)
(*                                                                         *)
(* Six specifications share this module:                                   *)
(*   SpecEval     one apply_to call of one filter on one record            *)
(*   SpecCodec    one JSON encoding and decoding of a filter or a catalog  *)
(*   SpecCatalog  Config::new / push / get on one in-memory catalog        *)
(*   Spec         the command-line operations on the catalog file          *)
(*   SpecConc     two processes that each run one command on the file      *)
(*   SpecApply    one pass of apply_filter over one input file             *)
(***************************************************************************)
EXTENDS Integers, Sequences, FiniteSets, TLC

VARIABLES
    filter,           \* SpecEval: the filter apply_to is called on (self)
    record,           \* SpecEval: the record passed to apply_to
    overflow_checks,  \* SpecEval: TRUE = build with overflow checks (debug)
    result,           \* SpecEval: what the call did: a boolean or a panic
    config,           \* SpecCatalog: Config.filters, a map name -> filter
    pushes,           \* SpecCatalog: the push calls made so far, in order
    got,              \* SpecCatalog: the outcome of the last get call
    file,             \* Spec: the catalog file at config_path
    pc,               \* Spec: per process, where its command stands
    cmd,              \* Spec: per process, the command it runs
    mem,              \* Spec: per process, the Config it holds in memory
    save_call,        \* Spec: per process, how far its save_config call got
    prev_file,        \* Spec: per process, the file when its save_config began
    done,             \* Spec: per process, how its last command ended
    ncommands,        \* Spec: the number of commands started
    combined,         \* Spec: history, per name stored by combine: the two
                      \*   filters get returned to that combine, and its operator
    last_saved,       \* Spec: history, the text of the save_config call that
                      \*   completed last
    round_trip,       \* SpecCodec: the encoding and its decoding of filter or config
    source,           \* SpecApply: the items the record reader yields, in order
    evaluated,        \* SpecApply: the number of items the loop has taken
    sink,             \* SpecApply: the records written to the record writer
    finished          \* SpecApply: TRUE once writer.finish() has returned

evalVars == <<filter, record, overflow_checks, result>>
catVars  == <<config, pushes, got>>
cliVars  == <<file, pc, cmd, mem, save_call, prev_file, done, ncommands,
              combined, last_saved>>
codecVars == <<round_trip>>
applyVars == <<source, evaluated, sink, finished>>
vars     == <<filter, record, overflow_checks, result, config, pushes, got,
              file, pc, cmd, mem, save_call, prev_file, done, ncommands,
              combined, last_saved, round_trip, source, evaluated, sink, finished>>

(***************************************************************************)
(* Bounds of the model.                                                    *)
(***************************************************************************)
\* Longest read sequence of a record.
MaxLen == 2
\* Width in bits the model gives to i64 and usize (the program's are 64 bits
\* wide); positions range over every value of that width.
PosBits == 3
\* Largest mapping quality, and largest min/max of a Length or Mapq filter.
MaxVal == 3
\* Most push calls on one in-memory catalog.
MaxPushes == 3
\* Most commands run one after the other on one catalog file.
MaxCommands == 3
\* Most items the record reader of one apply pass yields.
MaxRecords == 3

(***************************************************************************)
(* Machine integers.                                                       *)
(***************************************************************************)
I64_MIN == -(2 ^ (PosBits - 1))
I64_MAX == (2 ^ (PosBits - 1)) - 1
I64 == I64_MIN .. I64_MAX

\* Two's complement wrap-around of a mathematical integer into i64.
wrapping(x) == ((x - I64_MIN) % (2 ^ PosBits)) + I64_MIN

\* `x as usize` of an i64 x: the same bits, read unsigned.
as_usize(x) == x % (2 ^ PosBits)

\* A call either returns a value or panics.
Ret(v) == [panicked |-> FALSE, value |-> v]
Panic  == [panicked |-> TRUE, value |-> FALSE]

\* i64::abs: i64::MIN has no positive counterpart; the negation panics in a
\* build with overflow checks and wraps to i64::MIN in one without.
abs(x, checks) ==
    IF x = I64_MIN
    THEN IF checks THEN Panic ELSE Ret(I64_MIN)
    ELSE Ret(IF x < 0 THEN -x ELSE x)

\* a - b on i64.
sub(a, b, checks) ==
    IF a - b \in I64 THEN Ret(a - b)
    ELSE IF checks THEN Panic ELSE Ret(wrapping(a - b))

\* a + b on i64.
add(a, b, checks) ==
    IF a + b \in I64 THEN Ret(a + b)
    ELSE IF checks THEN Panic ELSE Ret(wrapping(a + b))

\* Bitwise and of two naturals.
RECURSIVE BitAnd(_, _)
BitAnd(a, b) ==
    IF a = 0 \/ b = 0 THEN 0
    ELSE ((a % 2) * (b % 2)) + 2 * BitAnd(a \div 2, b \div 2)

(***************************************************************************)
(* Records (bam::Record), as far as the filters read them.                 *)
(***************************************************************************)
Bases == {"A", "C", "G", "T", "N"}

\* The flag bit of a read aligned to the reverse strand (0x10), and the
\* duplicate bit (0x400): the two bits of the test fixtures' flag 1040.
REVERSE_STRAND == 2 ^ 4
DUPLICATE == 2 ^ 10

IntegerType == {"I8", "U8", "I16", "U16", "I32", "U32"}
StringType == {"String", "Hex"}

\* bam TagValue: Char(u8), Int(i64, IntegerType), Float(f32),
\* String(bytes, StringType), IntArray, FloatArray.  num holds the number,
\* text the string or the array's raw bytes, ty the integer or string type.
TagValue(kind, num, text, ty) == [kind |-> kind, num |-> num, text |-> text, ty |-> ty]

\* record.flag().no_bits(mask)
no_bits(flag, mask) == BitAnd(flag, mask) = 0

\* record.flag().is_reverse_strand()
is_reverse_strand(flag) == BitAnd(flag, REVERSE_STRAND) # 0

\* Sequence::at(index): the stored base; panics outside the sequence.
at(r, index) ==
    IF index \in 0 .. (Len(r.seq) - 1) THEN Ret(r.seq[index + 1]) ELSE Panic

complement(base) ==
    CASE base = "A" -> "T"
      [] base = "T" -> "A"
      [] base = "C" -> "G"
      [] base = "G" -> "C"
      [] OTHER -> "N"

\* Sequence::rev_compl(start..end): the complements of the stored bases
\* start..end-1, last first; panics when the range leaves the sequence.
rev_compl(r, start, end) ==
    IF start <= end /\ end <= Len(r.seq)
    THEN Ret([i \in 1 .. (end - start) |-> complement(r.seq[end - i + 1])])
    ELSE Panic

\* Iterator::next().unwrap(): panics on an empty iterator.
next_unwrap(it) ==
    IF it.panicked \/ Len(it.value) = 0 THEN Panic ELSE Ret(Head(it.value))

(***************************************************************************)
(* A record holds what the filters read.  The code reads query_len() and   *)
(* sequence().available() separately, so the model keeps both; the bases   *)
(* are stored only when the sequence is available.                         *)
(***************************************************************************)
Record(query_len, available, seq, mapq, ref_id, flag, tags) ==
    [query_len |-> query_len, available |-> available, seq |-> seq,
     mapq |-> mapq, ref_id |-> ref_id, flag |-> flag, tags |-> tags]

\* record.tags().get(&tag_name): the stored value, if the record has the tag.
NoTags == <<>>
tags_get(r, tag_name) ==
    IF tag_name \in DOMAIN r.tags
    THEN [some |-> TRUE, value |-> r.tags[tag_name]]
    ELSE [some |-> FALSE, value |-> TagValue("Char", 0, "", "")]

(***************************************************************************)
(* utils.rs                                                                *)
(***************************************************************************)
BoolOperator == {"AND", "OR", "XOR", "XNOR", "NAND", "NOR", "IMPLIES"}

_opposite(boolean, opposite) == IF opposite THEN ~boolean ELSE boolean

\* MinimalTagValue: Char(u8), Int(i64), Float(f32), String(String).  A Float
\* whose text is "NaN" is the f32 NaN, which equals nothing, itself included;
\* one whose text is "inf" is the f32 infinity.
MinimalTagValue(kind, num, text) == [kind |-> kind, num |-> num, text |-> text]

\* An expansion that gives the Int the type computed from its sign.
Mutant_minimal_tag_to_tag(tag) ==
    CASE tag.kind = "Char" -> TagValue("Char", tag.num, "", "")
      [] tag.kind = "Int" ->
            LET int_type == IF tag.num < 0 THEN "I32" ELSE "U32"
            IN  TagValue("Int", tag.num, "", int_type)
      [] tag.kind = "Float" -> TagValue("Float", tag.num, tag.text, "")
      [] tag.kind = "String" -> TagValue("String", 0, tag.text, "String")

\* The Int arm computes int_type from the sign and then does not use it: the
\* expanded value always carries IntegerType::I32.
_minimal_tag_to_tag(tag) ==
    CASE tag.kind = "Char" -> TagValue("Char", tag.num, "", "")
      [] tag.kind = "Int" ->
            LET int_type == IF tag.num < 0 THEN "I32" ELSE "U32"
            IN  TagValue("Int", tag.num, "", "I32")
      [] tag.kind = "Float" -> TagValue("Float", tag.num, tag.text, "")
      [] tag.kind = "String" -> TagValue("String", 0, tag.text, "String")

_are_tag_values_equal(a, b) ==
    CASE a.kind = "Char" /\ b.kind = "Char" -> a.num = b.num
      [] a.kind = "Int" /\ b.kind = "Int" -> a.num = b.num /\ a.ty = b.ty
      [] a.kind = "Float" /\ b.kind = "Float" ->
            a.text # "NaN" /\ b.text # "NaN" /\ a.num = b.num /\ a.text = b.text
      [] a.kind = "String" /\ b.kind = "String" -> a.text = b.text /\ a.ty = b.ty
      [] a.kind = "IntArray" /\ b.kind = "IntArray" -> a.text = b.text
      [] a.kind = "FloatArray" /\ b.kind = "FloatArray" -> a.text = b.text
      [] OTHER -> FALSE

(***************************************************************************)
(* filters.rs: the seven filter structs and their constructors.            *)
(***************************************************************************)
\* A CombinedFilter that keeps its first sub-filter in both places.
MutantCombinedFilter(name, filter1, filter2, operator) ==
    [type |-> "CombinedFilter", name |-> name, filter1 |-> filter1,
     filter2 |-> filter1, operator |-> operator]

CombinedFilter(name, filter1, filter2, operator) ==
    [type |-> "CombinedFilter", name |-> name, filter1 |-> filter1,
     filter2 |-> filter2, operator |-> operator]

LengthFilter(name, min_len, max_len, opposite) ==
    [type |-> "LengthFilter", name |-> name, min_len |-> min_len,
     max_len |-> max_len, opposite |-> opposite]

TagFilter(name, tag_name, tag_value, opposite) ==
    [type |-> "TagFilter", name |-> name, tag_name |-> tag_name,
     tag_value |-> tag_value, opposite |-> opposite]

MapqFilter(name, min_mapq, max_mapq, opposite) ==
    [type |-> "MapqFilter", name |-> name, min_mapq |-> min_mapq,
     max_mapq |-> max_mapq, opposite |-> opposite]

RefNameFilter(name, ref_id, opposite) ==
    [type |-> "RefNameFilter", name |-> name, ref_id |-> ref_id,
     opposite |-> opposite]

\* The struct itself; NthNucleotideFilter_new below is the constructor.
NthNucleotideFilter(name, position, nucleotide, n_is_wildcard, opposite) ==
    [type |-> "NthNucleotideFilter", name |-> name, position |-> position,
     nucleotide |-> nucleotide, n_is_wildcard |-> n_is_wildcard,
     opposite |-> opposite]

FlagFilter(name, remove_flags, opposite) ==
    [type |-> "FlagFilter", name |-> name, remove_flags |-> remove_flags,
     opposite |-> opposite]

\* NthNucleotideFilter::new: asserts the nucleotide, and nothing about the
\* position.
NthNucleotideFilter_new(name, position, nucleotide, n_is_wildcard, opposite) ==
    IF nucleotide \in {"A", "C", "G", "T", "N"}
    THEN Ret(NthNucleotideFilter(name, position, nucleotide, n_is_wildcard, opposite))
    ELSE Panic

(***************************************************************************)
(* filters.rs: impl Filtering, apply_to.  Each returns Ret(boolean) or      *)
(* Panic.                                                                  *)
(***************************************************************************)
MutantFlagFilter_apply_to(self, r) ==
    Ret(_opposite(no_bits(r.flag, self.remove_flags), FALSE))

FlagFilter_apply_to(self, r) ==
    LET flags == r.flag
    IN  IF no_bits(flags, self.remove_flags)
        THEN Ret(_opposite(TRUE, self.opposite))
        ELSE Ret(_opposite(FALSE, self.opposite))

MutantLengthFilter_apply_to(self, r) ==
    LET read_len == r.query_len
    IN  IF read_len <= self.min_len \/ read_len > self.max_len
        THEN Ret(_opposite(FALSE, self.opposite))
        ELSE Ret(_opposite(TRUE, self.opposite))

LengthFilter_apply_to(self, r) ==
    LET read_len == r.query_len
    IN  IF read_len < self.min_len \/ read_len > self.max_len
        THEN Ret(_opposite(FALSE, self.opposite))
        ELSE Ret(_opposite(TRUE, self.opposite))

MutantTagFilter_apply_to(self, r) ==
    LET tag == tags_get(r, self.tag_name)
    IN  IF tag.some
        THEN Ret(_opposite(_are_tag_values_equal(tag.value,
                               _minimal_tag_to_tag(self.tag_value)), self.opposite))
        ELSE Ret(FALSE)

TagFilter_apply_to(self, r) ==
    LET tag == tags_get(r, self.tag_name)
    IN  IF tag.some
        THEN LET expanded_tag_val == _minimal_tag_to_tag(self.tag_value)
             IN  IF _are_tag_values_equal(tag.value, expanded_tag_val)
                 THEN Ret(_opposite(TRUE, self.opposite))
                 ELSE Ret(_opposite(FALSE, self.opposite))
        ELSE Ret(_opposite(FALSE, self.opposite))

MapqFilter_apply_to(self, r) ==
    LET mapq == r.mapq
    IN  IF mapq < self.min_mapq \/ mapq > self.max_mapq
        THEN Ret(_opposite(FALSE, self.opposite))
        ELSE Ret(_opposite(TRUE, self.opposite))

RefNameFilter_apply_to(self, r) ==
    LET this_ref_id == r.ref_id
    IN  Ret(_opposite(this_ref_id = self.ref_id, self.opposite))

\* The nucleotide the filter compares: on a reverse-strand record the first
\* item of rev_compl over the one-base range (len-position-1)..(len-position),
\* otherwise the stored base at position.  position is the zero-based index.
this_nuc(r, len, position, checks) ==
    IF is_reverse_strand(r.flag)
    THEN LET d     == sub(len, position, checks)
             start == IF d.panicked THEN Panic ELSE sub(d.value, 1, checks)
         IN  IF d.panicked \/ start.panicked THEN Panic
             ELSE next_unwrap(rev_compl(r, as_usize(start.value), as_usize(d.value)))
    ELSE at(r, as_usize(position))

NthNucleotideFilter_apply_to(self, r, checks) ==
    IF self.position = 0 THEN Panic              \* assert_ne!(self.position, 0)
    ELSE
    LET len == r.query_len                       \* u32 as i64
        a   == abs(self.position, checks)
    IN  IF a.panicked THEN Panic
        ELSE IF a.value > len THEN Ret(_opposite(FALSE, self.opposite))
        ELSE IF ~r.available THEN Ret(_opposite(FALSE, self.opposite))
        ELSE
        LET position == IF self.position < 0
                        THEN add(len, self.position, checks)
                        ELSE sub(self.position, 1, checks)
            nuc == IF position.panicked THEN Panic
                   ELSE this_nuc(r, len, position.value, checks)
        IN  IF nuc.panicked THEN Panic
            ELSE IF self.n_is_wildcard /\ nuc.value = "N"
            THEN Ret(_opposite(TRUE, self.opposite))
            ELSE Ret(_opposite(nuc.value = self.nucleotide, self.opposite))

\* The match over self.operator, on the two sub-results.
MutantCombine(operator, result1, result2) ==
    CASE operator = "AND" -> result1 /\ result2
      [] operator = "OR" -> result1 \/ result2
      [] operator = "XOR" -> result1 # result2
      [] operator = "XNOR" -> ~(result1 # result2)
      [] operator = "NAND" -> ~(result1 /\ result2)
      [] operator = "NOR" -> ~(result1 \/ result2)
      [] operator = "IMPLIES" -> ~result2 \/ result1

Combine(operator, result1, result2) ==
    CASE operator = "AND" -> result1 /\ result2
      [] operator = "OR" -> result1 \/ result2
      [] operator = "XOR" -> result1 # result2
      [] operator = "XNOR" -> ~(result1 # result2)
      [] operator = "NAND" -> ~(result1 /\ result2)
      [] operator = "NOR" -> ~(result1 \/ result2)
      [] operator = "IMPLIES" -> ~result1 \/ result2

\* Filtering::apply_to, dispatched on the filter's type.  A CombinedFilter
\* evaluates filter1, then filter2, then the operator; a panic in either
\* sub-filter unwinds through it.
RECURSIVE apply_to(_, _, _)
apply_to(self, r, checks) ==
    CASE self.type = "CombinedFilter" ->
            LET result1 == apply_to(self.filter1, r, checks)
                result2 == apply_to(self.filter2, r, checks)
            IN  IF result1.panicked \/ result2.panicked THEN Panic
                ELSE Ret(Combine(self.operator, result1.value, result2.value))
      [] self.type = "FlagFilter" -> FlagFilter_apply_to(self, r)
      [] self.type = "LengthFilter" -> LengthFilter_apply_to(self, r)
      [] self.type = "TagFilter" -> TagFilter_apply_to(self, r)
      [] self.type = "MapqFilter" -> MapqFilter_apply_to(self, r)
      [] self.type = "RefNameFilter" -> RefNameFilter_apply_to(self, r)
      [] self.type = "NthNucleotideFilter" -> NthNucleotideFilter_apply_to(self, r, checks)

(***************************************************************************)
(* filters.rs: Config, a HashMap from filter name to filter.               *)
(***************************************************************************)
Config_new == <<>>

count(self) == Cardinality(DOMAIN self)

\* A push that keeps the entry already stored under the key.
Mutantpush(self, key, value) ==
    [k \in DOMAIN self \cup {key} |-> IF k \in DOMAIN self THEN self[k] ELSE value]

\* HashMap::insert: the new value replaces any value stored under the key.
push(self, key, value) ==
    [k \in DOMAIN self \cup {key} |-> IF k = key THEN value ELSE self[k]]

None == [some |-> FALSE]
Some(v) == [some |-> TRUE, value |-> v]

\* HashMap::get(..).cloned(): a copy of the stored filter, or None.
get(self, key) == IF key \in DOMAIN self THEN Some(self[key]) ELSE None

(***************************************************************************)
(* utils.rs: the command line's tag arguments.                             *)
(***************************************************************************)
\* str::parse of the literals the model uses, as an i64 and as a u8.
parse_i64(data) ==
    CASE data = "0" -> Ret(0)
      [] data = "1" -> Ret(1)
      [] data = "-1" -> Ret(-1)
      [] data = "65" -> Ret(65)
      [] OTHER -> Panic

parse_u8(data) ==
    LET n == parse_i64(data)
    IN  IF ~n.panicked /\ n.value >= 0 THEN n ELSE Panic

\* Ok(value) is Ret(value); Err(..) is Panic, which the caller's unwrap
\* turns into a panic.
convert_to_minimal_tag_value(cli_value, data) ==
    CASE cli_value = "Char" ->
            IF parse_u8(data).panicked THEN Panic
            ELSE Ret(MinimalTagValue("Char", parse_u8(data).value, ""))
      [] cli_value = "Int" ->
            IF parse_i64(data).panicked THEN Panic
            ELSE Ret(MinimalTagValue("Int", parse_i64(data).value, ""))
      [] cli_value = "Float" ->
            IF data \in {"NaN", "inf"} THEN Ret(MinimalTagValue("Float", 0, data))
            ELSE IF parse_i64(data).panicked THEN Panic
            ELSE Ret(MinimalTagValue("Float", parse_i64(data).value, ""))
      [] cli_value = "String" -> Ret(MinimalTagValue("String", 0, data))

\* Panics unless the name is two bytes long; the model keeps the two bytes
\* as the two-character string.
str_to_tag_name(s) == IF Len(s) # 2 THEN Panic ELSE Ret(s)

(***************************************************************************)
(* filters.rs: impl Filtering, name and repr.  The text repr builds is     *)
(* modelled by the values it formats, in a record.                         *)
(***************************************************************************)
name_(self) == self.name

\* The Display strum derives for MinimalTagValue prints the variant's name
\* and not the value it carries.
to_string(tag_value) == tag_value.kind

\* The repr of a CombinedFilter shows the names of its sub-filters; the repr
\* of an NthNucleotideFilter leaves n_is_wildcard out.
repr(self) ==
    CASE self.type = "CombinedFilter" ->
            [struct |-> "CombinedFilter", name |-> self.name,
             filter1 |-> name_(self.filter1), filter2 |-> name_(self.filter2),
             operator |-> self.operator]
      [] self.type = "FlagFilter" ->
            [struct |-> "FlagFilter", name |-> self.name,
             remove_flags |-> self.remove_flags, opposite |-> self.opposite]
      [] self.type = "LengthFilter" ->
            [struct |-> "LengthFilter", name |-> self.name, min_len |-> self.min_len,
             max_len |-> self.max_len, opposite |-> self.opposite]
      [] self.type = "TagFilter" ->
            [struct |-> "TagFilter", name |-> self.name, tag_name |-> self.tag_name,
             tag_value |-> to_string(self.tag_value), opposite |-> self.opposite]
      [] self.type = "MapqFilter" ->
            [struct |-> "MapqFilter", name |-> self.name, min_mapq |-> self.min_mapq,
             max_mapq |-> self.max_mapq, opposite |-> self.opposite]
      [] self.type = "RefNameFilter" ->
            [struct |-> "RefNameFilter", name |-> self.name, ref_id |-> self.ref_id,
             opposite |-> self.opposite]
      [] self.type = "NthNucleotideFilter" ->
            [struct |-> "NthNucleotideFilter", name |-> self.name,
             position |-> self.position, nucleotide |-> self.nucleotide,
             opposite |-> self.opposite]

(***************************************************************************)
(* main.rs: the JSON text of a catalog.  A JSON document is modelled by    *)
(* its value: an object is a record, and the text of a catalog is the      *)
(* object {"filters": {name: filter object}}.  typetag writes the filter's *)
(* struct name under "type"; a [u8; 2] tag name is written as an array of  *)
(* two numbers and a MinimalTagValue as {variant: value}.                  *)
(***************************************************************************)
FilterTypes ==
    {"CombinedFilter", "FlagFilter", "LengthFilter", "TagFilter", "MapqFilter",
     "RefNameFilter", "NthNucleotideFilter"}

tag_name_bytes(tag_name) ==
    CASE tag_name = "NM" -> <<78, 77>>
      [] tag_name = "XS" -> <<88, 83>>

bytes_tag_name(bytes) ==
    CASE bytes = <<78, 77>> -> "NM"
      [] bytes = <<88, 83>> -> "XS"

\* The JSON number a text can hold and an f32 cannot: 1e39 is above f32::MAX.
AboveF32 == "1e39"

\* {variant: value}.  serde_json has no text for an f32 that is not finite:
\* it writes NaN and the infinities as null.
json_tag_value(v) ==
    IF v.kind = "Float"
    THEN [variant |-> "Float", num |-> v.num, text |-> "",
          null |-> v.text \in {"NaN", "inf"}]
    ELSE [variant |-> v.kind, num |-> v.num, text |-> v.text, null |-> FALSE]

\* The derived Serialize of each struct, under typetag's "type".  A
\* CombinedFilter writes both sub-filters in full.
RECURSIVE json_filter(_)
json_filter(f) ==
    CASE f.type = "CombinedFilter" ->
            [type |-> "CombinedFilter", name |-> f.name,
             filter1 |-> json_filter(f.filter1), filter2 |-> json_filter(f.filter2),
             operator |-> f.operator]
      [] f.type = "FlagFilter" ->
            [type |-> "FlagFilter", name |-> f.name, remove_flags |-> f.remove_flags,
             opposite |-> f.opposite]
      [] f.type = "LengthFilter" ->
            [type |-> "LengthFilter", name |-> f.name, min_len |-> f.min_len,
             max_len |-> f.max_len, opposite |-> f.opposite]
      [] f.type = "TagFilter" ->
            [type |-> "TagFilter", name |-> f.name,
             tag_name |-> tag_name_bytes(f.tag_name),
             tag_value |-> json_tag_value(f.tag_value), opposite |-> f.opposite]
      [] f.type = "MapqFilter" ->
            [type |-> "MapqFilter", name |-> f.name, min_mapq |-> f.min_mapq,
             max_mapq |-> f.max_mapq, opposite |-> f.opposite]
      [] f.type = "RefNameFilter" ->
            [type |-> "RefNameFilter", name |-> f.name, ref_id |-> f.ref_id,
             opposite |-> f.opposite]
      [] f.type = "NthNucleotideFilter" ->
            [type |-> "NthNucleotideFilter", name |-> f.name, position |-> f.position,
             nucleotide |-> f.nucleotide, n_is_wildcard |-> f.n_is_wildcard,
             opposite |-> f.opposite]

\* serde_json::to_string(config).  Nothing in a Config makes it fail.
serialize_to_json(c) == Ret([filters |-> [k \in DOMAIN c |-> json_filter(c[k])]])

\* A null is no f32: the value does not decode.  A number above f32::MAX is
\* read as an f64 and cast, which gives the f32 infinity.
filter_tag_value(j) ==
    IF j.variant = "Float"
    THEN IF j.null THEN Panic
         ELSE IF j.text = AboveF32 THEN Ret(MinimalTagValue("Float", 0, "inf"))
         ELSE Ret(MinimalTagValue("Float", j.num, ""))
    ELSE Ret(MinimalTagValue(j.variant, j.num, j.text))

\* Decoding dispatches on "type"; a name that is no filter struct is an
\* error.  The derived Deserialize fills the fields as they are written:
\* NthNucleotideFilter::new and its assertion are not run.
RECURSIVE filter_json(_)
filter_json(j) ==
    IF j.type \notin FilterTypes THEN Panic
    ELSE CASE j.type = "CombinedFilter" ->
                LET filter1 == filter_json(j.filter1)
                    filter2 == filter_json(j.filter2)
                IN  IF filter1.panicked \/ filter2.panicked THEN Panic
                    ELSE Ret(CombinedFilter(j.name, filter1.value, filter2.value,
                                            j.operator))
           [] j.type = "FlagFilter" ->
                Ret(FlagFilter(j.name, j.remove_flags, j.opposite))
           [] j.type = "LengthFilter" ->
                Ret(LengthFilter(j.name, j.min_len, j.max_len, j.opposite))
           [] j.type = "TagFilter" ->
                LET tag_value == filter_tag_value(j.tag_value)
                IN  IF tag_value.panicked THEN Panic
                    ELSE Ret(TagFilter(j.name, bytes_tag_name(j.tag_name),
                                       tag_value.value, j.opposite))
           [] j.type = "MapqFilter" ->
                Ret(MapqFilter(j.name, j.min_mapq, j.max_mapq, j.opposite))
           [] j.type = "RefNameFilter" ->
                Ret(RefNameFilter(j.name, j.ref_id, j.opposite))
           [] j.type = "NthNucleotideFilter" ->
                Ret(NthNucleotideFilter(j.name, j.position, j.nucleotide,
                                        j.n_is_wildcard, j.opposite))

\* serde_json::from_str: Ret(config), or Panic for an Err.
deserialize_from_json(j) ==
    IF \E k \in DOMAIN j.filters : filter_json(j.filters[k]).panicked THEN Panic
    ELSE Ret([k \in DOMAIN j.filters |-> filter_json(j.filters[k]).value])

(***************************************************************************)
(* main.rs: files.  A file is absent, empty (zero bytes), partial (a       *)
(* proper prefix of a JSON text) or complete (a whole JSON text).          *)
(***************************************************************************)
Absent == [state |-> "absent"]
Empty == [state |-> "empty"]
Partial == [state |-> "partial"]
Complete(json) == [state |-> "complete", json |-> json]

\* A whole JSON text followed by the tail of a longer text written before.
Mixed == [state |-> "mixed"]

\* load_config: open, read_to_string and deserialize, each unwrapped.  An
\* absent file fails to open; an empty or cut-off text, or one with bytes
\* after the JSON value, fails to parse.
load_config(f) ==
    IF f.state = "complete" THEN deserialize_from_json(f.json) ELSE Panic

(***************************************************************************)
(* main.rs: json_str.as_bytes().len(), the number of bytes of a catalog's  *)
(* JSON text.  serde_json writes no white space.                           *)
(***************************************************************************)
\* The decimal digits of an integer, and its sign.
RECURSIVE digits(_)
digits(n) ==
    IF n < 0 THEN 1 + digits(-n)
    ELSE IF n < 10 THEN 1 ELSE 1 + digits(n \div 10)

\* true, false
bool_len(b) == IF b THEN 4 ELSE 5

\* "s"
str_len(str) == Len(str) + 2

\* "key":value
member_len(key, value_len) == str_len(key) + 1 + value_len

\* {"Char":65}, {"Int":-1}, {"Float":1.0}, {"Float":null}, {"String":"a"}
tag_value_len(v) ==
    2 + member_len(v.variant,
            CASE v.variant = "String" -> str_len(v.text)
              [] v.variant = "Float" -> IF v.null THEN 4 ELSE digits(v.num) + 2
              [] OTHER -> digits(v.num))

\* {"type":"LengthFilter","name":"f",...}: the braces, the members and the
\* commas between them.
RECURSIVE filter_len(_)
filter_len(j) ==
    LET head == member_len("type", str_len(j.type)) + 1 + member_len("name", str_len(j.name))
    IN  2 + head + 1 +
        CASE j.type = "CombinedFilter" ->
                member_len("filter1", filter_len(j.filter1)) + 1
                + member_len("filter2", filter_len(j.filter2)) + 1
                + member_len("operator", str_len(j.operator))
          [] j.type = "FlagFilter" ->
                member_len("remove_flags", digits(j.remove_flags)) + 1
                + member_len("opposite", bool_len(j.opposite))
          [] j.type = "LengthFilter" ->
                member_len("min_len", digits(j.min_len)) + 1
                + member_len("max_len", digits(j.max_len)) + 1
                + member_len("opposite", bool_len(j.opposite))
          [] j.type = "TagFilter" ->
                member_len("tag_name", 3 + digits(j.tag_name[1]) + digits(j.tag_name[2])) + 1
                + member_len("tag_value", tag_value_len(j.tag_value)) + 1
                + member_len("opposite", bool_len(j.opposite))
          [] j.type = "MapqFilter" ->
                member_len("min_mapq", digits(j.min_mapq)) + 1
                + member_len("max_mapq", digits(j.max_mapq)) + 1
                + member_len("opposite", bool_len(j.opposite))
          [] j.type = "RefNameFilter" ->
                member_len("ref_id", digits(j.ref_id)) + 1
                + member_len("opposite", bool_len(j.opposite))
          [] j.type = "NthNucleotideFilter" ->
                member_len("position", digits(j.position)) + 1
                + member_len("nucleotide", str_len(j.nucleotide)) + 1
                + member_len("n_is_wildcard", bool_len(j.n_is_wildcard)) + 1
                + member_len("opposite", bool_len(j.opposite))

\* The members of the "filters" object named in keys, with their commas.
RECURSIVE members_len(_, _)
members_len(filters, keys) ==
    IF keys = {} THEN 0
    ELSE LET k == CHOOSE x \in keys : TRUE
             rest == keys \ {k}
         IN  member_len(k, filter_len(filters[k]))
             + (IF rest = {} THEN 0 ELSE 1 + members_len(filters, rest))

\* {"filters":{...}}
text_len(json) ==
    2 + member_len("filters", 2 + members_len(json.filters, DOMAIN json.filters))

\* write_all of a whole text through a descriptor opened at offset 0: the
\* files it can leave.  The text replaces the first bytes of the file, and
\* bytes another descriptor wrote beyond its end stay behind it.  How far a
\* cut-off or mixed text reaches is not known to the model.
write_all(f, json) ==
    CASE f.state = "empty" -> {Complete(json)}
      [] f.state = "complete" ->
            IF text_len(f.json) <= text_len(json) THEN {Complete(json)} ELSE {Mixed}
      [] OTHER -> {Complete(json), Mixed}

(***************************************************************************)
(* SpecEval: apply_to called on bounded filters and records.               *)
(***************************************************************************)
\* The value of result before any call.
NoCall == [panicked |-> FALSE, value |-> FALSE, none |-> TRUE]

\* All base strings of length n.
Seqs(n) == [1 .. n -> Bases]

\* A record of query length len whose sequence is all "A".
PlainRecord(len, mapq, ref_id, flag, tags) ==
    Record(len, len > 0, [i \in 1 .. len |-> "A"], mapq, ref_id, flag, tags)

\* Records that differ in length, sequence, availability and strand.  An
\* available sequence has at least one base.
SeqRecords ==
    { Record(Len(s), TRUE, s, 0, 0, flag, NoTags) :
        s \in UNION { Seqs(n) : n \in 1 .. MaxLen }, flag \in {0, REVERSE_STRAND} }
    \cup
    { Record(n, FALSE, <<>>, 0, 0, flag, NoTags) :
        n \in 0 .. MaxLen, flag \in {0, REVERSE_STRAND} }

Flags == {0, REVERSE_STRAND, DUPLICATE, REVERSE_STRAND + DUPLICATE}

\* Values a record can store under a tag.
StoredTagValues ==
    { TagValue("Char", 65, "", ""), TagValue("Char", 66, "", ""),
      TagValue("Float", 1, "", ""), TagValue("Float", 0, "NaN", ""),
      TagValue("Float", 0, "inf", ""),
      TagValue("String", 0, "a", "String"), TagValue("String", 0, "a", "Hex"),
      TagValue("String", 0, "", "String"),
      TagValue("IntArray", 0, "a", ""), TagValue("FloatArray", 0, "a", "") }
    \cup { TagValue("Int", n, "", ty) : n \in {0, 1}, ty \in {"U8", "I32", "U32"} }
    \cup { TagValue("Int", -1, "", ty) : ty \in {"I8", "I32"} }

\* Values a Tag filter can be configured with.
MinimalTagValues ==
    { MinimalTagValue("Char", 65, ""), MinimalTagValue("Float", 1, ""),
      MinimalTagValue("Float", 0, "NaN"), MinimalTagValue("Float", 0, "inf"),
      MinimalTagValue("String", 0, "a"),
      MinimalTagValue("String", 0, ""),
      MinimalTagValue("Int", 0, ""), MinimalTagValue("Int", 1, ""),
      MinimalTagValue("Int", -1, "") }

TagNames == {"NM", "XS"}

\* Tag tables: no tag, or one tag.
TagTables == {NoTags} \cup { [n \in {t} |-> v] : t \in TagNames, v \in StoredTagValues }

\* Leaf filters the Combined filters of SpecEval are built from; the last
\* one has position 0.
SubFilters ==
    { LengthFilter("a", 1, 2, FALSE), LengthFilter("a", 1, 2, TRUE),
      MapqFilter("b", 1, 2, FALSE),
      NthNucleotideFilter("c", 1, "A", FALSE, FALSE),
      NthNucleotideFilter("c", 0, "A", FALSE, FALSE) }

\* Records for the Combined filters: length and mapping quality vary.
CombinedRecords == { PlainRecord(n, m, 0, 0, NoTags) : n \in 0 .. MaxLen, m \in 0 .. MaxVal }

ApplyLength ==
    /\ result = NoCall
    /\ \E min_len \in 0 .. MaxVal, max_len \in 0 .. MaxVal, opposite \in BOOLEAN,
       n \in 0 .. MaxLen, checks \in BOOLEAN :
        /\ filter' = LengthFilter("f", min_len, max_len, opposite)
        /\ record' = PlainRecord(n, 0, 0, 0, NoTags)
        /\ overflow_checks' = checks
    /\ result' = apply_to(filter', record', overflow_checks')
    /\ UNCHANGED <<catVars, cliVars, codecVars, applyVars>>

ApplyMapq ==
    /\ result = NoCall
    /\ \E min_mapq \in 0 .. MaxVal, max_mapq \in 0 .. MaxVal, opposite \in BOOLEAN,
       m \in 0 .. MaxVal, checks \in BOOLEAN :
        /\ filter' = MapqFilter("f", min_mapq, max_mapq, opposite)
        /\ record' = PlainRecord(1, m, 0, 0, NoTags)
        /\ overflow_checks' = checks
    /\ result' = apply_to(filter', record', overflow_checks')
    /\ UNCHANGED <<catVars, cliVars, codecVars, applyVars>>

ApplyRefName ==
    /\ result = NoCall
    /\ \E ref_id \in -1 .. 1, opposite \in BOOLEAN, rid \in -1 .. 1, checks \in BOOLEAN :
        /\ filter' = RefNameFilter("f", ref_id, opposite)
        /\ record' = PlainRecord(1, 0, rid, 0, NoTags)
        /\ overflow_checks' = checks
    /\ result' = apply_to(filter', record', overflow_checks')
    /\ UNCHANGED <<catVars, cliVars, codecVars, applyVars>>

ApplyFlag ==
    /\ result = NoCall
    /\ \E remove_flags \in Flags \cup {4}, opposite \in BOOLEAN, flag \in Flags,
       checks \in BOOLEAN :
        /\ filter' = FlagFilter("f", remove_flags, opposite)
        /\ record' = PlainRecord(1, 0, 0, flag, NoTags)
        /\ overflow_checks' = checks
    /\ result' = apply_to(filter', record', overflow_checks')
    /\ UNCHANGED <<catVars, cliVars, codecVars, applyVars>>

ApplyTag ==
    /\ result = NoCall
    /\ \E tag_name \in TagNames, tag_value \in MinimalTagValues, opposite \in BOOLEAN,
       tags \in TagTables, checks \in BOOLEAN :
        /\ filter' = TagFilter("f", tag_name, tag_value, opposite)
        /\ record' = PlainRecord(1, 0, 0, 0, tags)
        /\ overflow_checks' = checks
    /\ result' = apply_to(filter', record', overflow_checks')
    /\ UNCHANGED <<catVars, cliVars, codecVars, applyVars>>

ApplyNthNucleotide ==
    /\ result = NoCall
    /\ \E position \in I64, nucleotide \in Bases, n_is_wildcard \in BOOLEAN,
       opposite \in BOOLEAN, r \in SeqRecords, checks \in BOOLEAN :
        /\ filter' = NthNucleotideFilter("f", position, nucleotide, n_is_wildcard, opposite)
        /\ record' = r
        /\ overflow_checks' = checks
    /\ result' = apply_to(filter', record', overflow_checks')
    /\ UNCHANGED <<catVars, cliVars, codecVars, applyVars>>

ApplyCombined ==
    /\ result = NoCall
    /\ \E filter1 \in SubFilters, filter2 \in SubFilters, operator \in BoolOperator,
          r \in CombinedRecords, checks \in BOOLEAN :
        /\ filter' = CombinedFilter("f", filter1, filter2, operator)
        /\ record' = r
        /\ overflow_checks' = checks
    /\ result' = apply_to(filter', record', overflow_checks')
    /\ UNCHANGED <<catVars, cliVars, codecVars, applyVars>>

\* A Combined filter whose first sub-filter is itself a Combined filter.
ApplyNested ==
    /\ result = NoCall
    /\ \E filter1 \in SubFilters, filter2 \in SubFilters, filter3 \in SubFilters,
          op1 \in BoolOperator, op2 \in {"AND", "IMPLIES"}, r \in CombinedRecords :
        /\ filter' = CombinedFilter("f", CombinedFilter("g", filter1, filter2, op1),
                                    filter3, op2)
        /\ record' = r
        /\ overflow_checks' = TRUE
    /\ result' = apply_to(filter', record', overflow_checks')
    /\ UNCHANGED <<catVars, cliVars, codecVars, applyVars>>

\* The processes that run commands on the catalog file.
Procs == {1, 2}

NoCommand == [op |-> "none"]

CliIdle ==
    /\ file = Absent
    /\ pc = [p \in Procs |-> "idle"]
    /\ cmd = [p \in Procs |-> NoCommand]
    /\ mem = [p \in Procs |-> <<>>]
    /\ save_call = [p \in Procs |-> "none"]
    /\ prev_file = [p \in Procs |-> Absent]
    /\ done = [p \in Procs |-> "none"]
    /\ ncommands = 0
    /\ combined = <<>>
    /\ last_saved = None

EvalIdle ==
    /\ filter = LengthFilter("f", 0, 0, FALSE)
    /\ record = PlainRecord(0, 0, 0, 0, NoTags)
    /\ overflow_checks = TRUE
    /\ result = NoCall

CatIdle ==
    /\ config = <<>>
    /\ pushes = <<>>
    /\ got = [called |-> FALSE]

CodecIdle == round_trip = NoCall

ApplyIdle ==
    /\ source = <<>>
    /\ evaluated = 0
    /\ sink = <<>>
    /\ finished = FALSE

InitEval == EvalIdle /\ CatIdle /\ CliIdle /\ CodecIdle /\ ApplyIdle

NextEval ==
    \/ ApplyLength
    \/ ApplyMapq
    \/ ApplyRefName
    \/ ApplyFlag
    \/ ApplyTag
    \/ ApplyNthNucleotide
    \/ ApplyCombined
    \/ ApplyNested

SpecEval == InitEval /\ [][NextEval]_vars

(***************************************************************************)
(* Properties of apply_to, checked under SpecEval.                         *)
(***************************************************************************)
Called == result # NoCall
Returned == Called /\ ~result.panicked
IsLeaf(f) == f.type # "CombinedFilter"

\* The truth table of the specification, columns (F,F), (F,T), (T,F), (T,T).
TruthTable(operator) ==
    CASE operator = "AND" -> <<FALSE, FALSE, FALSE, TRUE>>
      [] operator = "OR" -> <<FALSE, TRUE, TRUE, TRUE>>
      [] operator = "XOR" -> <<FALSE, TRUE, TRUE, FALSE>>
      [] operator = "XNOR" -> <<TRUE, FALSE, FALSE, TRUE>>
      [] operator = "NAND" -> <<TRUE, TRUE, TRUE, FALSE>>
      [] operator = "NOR" -> <<TRUE, FALSE, FALSE, FALSE>>
      [] operator = "IMPLIES" -> <<TRUE, TRUE, FALSE, TRUE>>

Column(result1, result2) ==
    1 + (IF result1 THEN 2 ELSE 0) + (IF result2 THEN 1 ELSE 0)

\* C2: whenever a Combined filter's two sub-filters return result1 and
\* result2, the Combined filter returns exactly the truth-table entry of its
\* operator for (result1, result2), and nothing else enters the result.
C2_TruthTable ==
    (Called /\ filter.type = "CombinedFilter") =>
        LET result1 == apply_to(filter.filter1, record, overflow_checks)
            result2 == apply_to(filter.filter2, record, overflow_checks)
        IN  (~result1.panicked /\ ~result2.panicked) =>
                result = Ret(TruthTable(filter.operator)[Column(result1.value, result2.value)])

C2_Witness ==
    /\ Called
    /\ filter.type = "CombinedFilter"
    /\ filter.operator = "IMPLIES"
    /\ apply_to(filter.filter1, record, overflow_checks) = Ret(TRUE)
    /\ apply_to(filter.filter2, record, overflow_checks) = Ret(FALSE)
    /\ result = Ret(FALSE)

\* C3: a Length filter returns the truth of min_len <= query_len <= max_len
\* and a Mapq filter that of min_mapq <= mapq <= max_mapq, both bounds
\* inclusive, negated when opposite is set; with min > max nothing passes.
C3_InclusiveRange ==
    /\ (Called /\ filter.type = "LengthFilter") =>
          result = Ret((filter.min_len <= record.query_len
                        /\ record.query_len <= filter.max_len) # filter.opposite)
    /\ (Called /\ filter.type = "MapqFilter") =>
          result = Ret((filter.min_mapq <= record.mapq
                        /\ record.mapq <= filter.max_mapq) # filter.opposite)

\* A read whose length equals min_len, with min_len < max_len, passes.
C3_Witness ==
    /\ Called
    /\ filter.type = "LengthFilter"
    /\ ~filter.opposite
    /\ record.query_len = filter.min_len
    /\ filter.min_len < filter.max_len
    /\ result = Ret(TRUE)

\* The filter with its opposite flag set to o.
WithOpposite(f, o) == [f EXCEPT !.opposite = o]

\* C4: _opposite(b, FALSE) = b and _opposite(b, TRUE) = ~b, and every leaf
\* filter's result is _opposite(raw, opposite), raw being the result of the
\* same filter with opposite = FALSE: flipping the flag flips every returned
\* result, and which calls return does not depend on the flag.
C4_Opposite ==
    /\ \A b \in BOOLEAN : _opposite(b, FALSE) = b /\ _opposite(b, TRUE) = ~b
    /\ (Called /\ IsLeaf(filter)) =>
          LET raw     == apply_to(WithOpposite(filter, FALSE), record, overflow_checks)
              flipped == apply_to(WithOpposite(filter, ~filter.opposite), record,
                                  overflow_checks)
          IN  /\ raw.panicked = result.panicked
              /\ flipped.panicked = result.panicked
              /\ Returned => /\ result.value = _opposite(raw.value, filter.opposite)
                             /\ flipped.value = ~result.value

\* A Flag filter with opposite set that returns TRUE because the record
\* carries one of the flags.
C4_Witness ==
    /\ Called
    /\ filter.type = "FlagFilter"
    /\ filter.opposite
    /\ ~no_bits(record.flag, filter.remove_flags)
    /\ result = Ret(TRUE)

\* The raw result the specification gives an NthNucleotide filter on a record
\* with an available sequence, for a 5'-relative zero-based index.
MatchAt(f, r, index) ==
    LET L    == Len(r.seq)
        base == IF is_reverse_strand(r.flag)
                THEN complement(r.seq[(L - index - 1) + 1])
                ELSE r.seq[index + 1]
    IN  base = f.nucleotide \/ (f.n_is_wildcard /\ base = "N")

ExpectedRaw(f, r) ==
    LET L == Len(r.seq)
        p == f.position
    IN  IF (IF p < 0 THEN -p ELSE p) > L THEN FALSE
        ELSE MatchAt(f, r, IF p > 0 THEN p - 1 ELSE L + p)

\* The sequence is available and as long as the record says.
SeqAvailable(r) == r.available /\ Len(r.seq) = r.query_len

\* C5: for every record with an available sequence of length L and every
\* non-zero position p, apply_to returns _opposite(raw, opposite) with raw
\* FALSE when |p| > L, and otherwise the match of the base at index p-1
\* (p > 0) or L+p (p < 0): the stored base on the forward strand, the
\* complement of the stored base at L-index-1 on the reverse strand.
C5_PositionAddressing ==
    (Called /\ filter.type = "NthNucleotideFilter" /\ filter.position # 0
        /\ SeqAvailable(record)) =>
        result = Ret(_opposite(ExpectedRaw(filter, record), filter.opposite))

\* The same, for every non-zero position other than i64::MIN.
C5_ExceptMin ==
    (Called /\ filter.type = "NthNucleotideFilter" /\ filter.position # 0
        /\ filter.position # I64_MIN /\ SeqAvailable(record)) =>
        result = Ret(_opposite(ExpectedRaw(filter, record), filter.opposite))

\* C6: apply_to never panics; every call returns a boolean, and an
\* NthNucleotide filter with position 0, an out-of-range position or an
\* unavailable sequence returns its opposite flag (raw = FALSE).
C6_NeverRaises ==
    Called =>
        /\ ~result.panicked
        /\ (filter.type = "NthNucleotideFilter"
            /\ (filter.position = 0 \/ ~record.available
                \/ filter.position > record.query_len
                \/ -filter.position > record.query_len)) =>
              result = Ret(filter.opposite)

\* C7: a Tag filter on a record without the configured tag returns FALSE
\* when opposite is not set and TRUE when it is, whatever the tag value.
C7_MissingTag ==
    (Called /\ filter.type = "TagFilter" /\ filter.tag_name \notin DOMAIN record.tags) =>
        result = Ret(filter.opposite)

\* The record has a tag, but not the configured one; opposite is set.
C7_Witness ==
    /\ Called
    /\ filter.type = "TagFilter"
    /\ filter.opposite
    /\ DOMAIN record.tags # {}
    /\ filter.tag_name \notin DOMAIN record.tags
    /\ result = Ret(TRUE)

\* The stored value has the type and the value of the configured one.  Two
\* floats have the same value when they compare equal, which a NaN does with
\* no float; an integer must be stored 32 bits wide and signed, a string as
\* a plain string; a stored array has the type of no configured value.
SameTagValue(stored, configured) ==
    /\ stored.kind = configured.kind
    /\ CASE configured.kind = "Char" -> stored.num = configured.num
         [] configured.kind = "Int" -> stored.num = configured.num /\ stored.ty = "I32"
         [] configured.kind = "Float" ->
                /\ stored.text # "NaN" /\ configured.text # "NaN"
                /\ stored.num = configured.num /\ stored.text = configured.text
         [] configured.kind = "String" ->
                stored.text = configured.text /\ stored.ty = "String"

\* C15: on a record that carries the configured tag, the raw result of a Tag
\* filter is TRUE iff the stored value has the type and the value of the
\* configured one, an Int being stored with the 32-bit signed width every
\* configured Int is expanded to and a String with the plain string
\* encoding; other widths, other types and arrays do not match.
C15_StrictTagEquality ==
    (Called /\ filter.type = "TagFilter" /\ filter.tag_name \in DOMAIN record.tags) =>
        result = Ret(_opposite(SameTagValue(record.tags[filter.tag_name], filter.tag_value),
                               filter.opposite))

\* The record stores the configured integer, not negative, as an unsigned
\* 32-bit value, and the filter does not match.
C15_Witness ==
    /\ Called
    /\ filter.type = "TagFilter"
    /\ filter.tag_name \in DOMAIN record.tags
    /\ filter.tag_value.kind = "Int"
    /\ record.tags[filter.tag_name].kind = "Int"
    /\ record.tags[filter.tag_name].num = filter.tag_value.num
    /\ record.tags[filter.tag_name].ty = "U32"
    /\ ~filter.opposite
    /\ result = Ret(FALSE)

\* C8: the Nucleotide position is 0-based: a position p >= 0 addresses the
\* base p places after the 5' start of the read (0 is the first base), and a
\* negative position counts from the 3' end (-1 is the last base).
C8_ZeroBased ==
    (Called /\ filter.type = "NthNucleotideFilter" /\ SeqAvailable(record)
        /\ filter.position < record.query_len /\ -filter.position <= record.query_len) =>
        result = Ret(_opposite(
                    MatchAt(filter, record,
                            IF filter.position >= 0 THEN filter.position
                            ELSE record.query_len + filter.position),
                    filter.opposite))

(***************************************************************************)
(* SpecCodec: serialize_to_json followed by deserialize_from_json, on one  *)
(* filter or on a whole Config, and apply_to and repr of what comes back.  *)
(***************************************************************************)
\* Leaf filters of all six leaf variants; the Tag filters carry every
\* configured value, the floats that are not finite included.
CodecLeaves ==
    { LengthFilter("a", 1, 2, FALSE), MapqFilter("b", 1, 2, TRUE),
      RefNameFilter("r", 0, FALSE), FlagFilter("d", DUPLICATE, FALSE),
      NthNucleotideFilter("n", -1, "A", TRUE, FALSE),
      NthNucleotideFilter("n", 1, "N", FALSE, TRUE) }
    \cup { TagFilter("t", "NM", v, FALSE) : v \in MinimalTagValues }

CodecRecords ==
    { Record(1, TRUE, <<"A">>, 1, 0, 0, NoTags),
      Record(2, TRUE, <<"C", "A">>, 2, 0, DUPLICATE,
             [n \in {"NM"} |-> TagValue("Int", 0, "", "I32")]),
      Record(2, TRUE, <<"N", "G">>, 0, -1, REVERSE_STRAND,
             [n \in {"NM"} |-> TagValue("Float", 1, "", "")]),
      Record(0, FALSE, <<>>, 3, 1, 0,
             [n \in {"NM"} |-> TagValue("String", 0, "a", "String")]) }

\* Whole catalogs: every map from a set of names to leaf filters and to one
\* Combined filter.
CodecCatalogs ==
    UNION { [S -> CodecLeaves \cup
                    { CombinedFilter("c", LengthFilter("a", 1, 2, FALSE),
                                     MapqFilter("b", 1, 2, TRUE), "XOR") }] :
            S \in SUBSET {"f", "g"} }

\* decode(encode(v)) of one filter: the text, the decoded filter or the
\* decoding error, and apply_to and repr of the decoded filter.
round_trip_of(v, r, checks) ==
    LET encoded == json_filter(v)
        decoded == filter_json(encoded)
    IN  [whole |-> FALSE, encoded |-> encoded, decoded |-> decoded,
         result |-> IF decoded.panicked THEN Panic
                    ELSE apply_to(decoded.value, r, checks),
         repr |-> IF decoded.panicked THEN Panic ELSE Ret(repr(decoded.value))]

RoundTripLeaf ==
    /\ round_trip = NoCall
    /\ \E v \in CodecLeaves, r \in CodecRecords, checks \in BOOLEAN :
        /\ filter' = v
        /\ record' = r
        /\ overflow_checks' = checks
    /\ result' = apply_to(filter', record', overflow_checks')
    /\ round_trip' = round_trip_of(filter', record', overflow_checks')
    /\ UNCHANGED <<catVars, cliVars, applyVars>>

RoundTripCombined ==
    /\ round_trip = NoCall
    /\ \E filter1 \in CodecLeaves, filter2 \in CodecLeaves, operator \in BoolOperator,
          r \in CodecRecords :
        /\ filter' = CombinedFilter("c", filter1, filter2, operator)
        /\ record' = r
        /\ overflow_checks' = TRUE
    /\ result' = apply_to(filter', record', overflow_checks')
    /\ round_trip' = round_trip_of(filter', record', overflow_checks')
    /\ UNCHANGED <<catVars, cliVars, applyVars>>

\* A Combined filter whose second sub-filter is itself a Combined filter.
RoundTripNested ==
    /\ round_trip = NoCall
    /\ \E filter1 \in CodecLeaves, filter2 \in CodecLeaves, filter3 \in CodecLeaves,
          r \in CodecRecords :
        /\ filter' = CombinedFilter("c", filter1,
                                    CombinedFilter("e", filter2, filter3, "NOR"), "IMPLIES")
        /\ record' = r
        /\ overflow_checks' = TRUE
    /\ result' = apply_to(filter', record', overflow_checks')
    /\ round_trip' = round_trip_of(filter', record', overflow_checks')
    /\ UNCHANGED <<catVars, cliVars, applyVars>>

\* serialize_to_json and deserialize_from_json of a whole Config.
RoundTripCatalog ==
    /\ round_trip = NoCall
    /\ \E c \in CodecCatalogs : config' = c
    /\ LET encoded == serialize_to_json(config')
       IN  round_trip' = [whole |-> TRUE, encoded |-> encoded.value,
                          decoded |-> deserialize_from_json(encoded.value)]
    /\ UNCHANGED <<pushes, got, evalVars, cliVars, applyVars>>

InitCodec == EvalIdle /\ CatIdle /\ CliIdle /\ CodecIdle /\ ApplyIdle

NextCodec ==
    \/ RoundTripLeaf
    \/ RoundTripCombined
    \/ RoundTripNested
    \/ RoundTripCatalog

SpecCodec == InitCodec /\ [][NextCodec]_vars

(***************************************************************************)
(* Properties of the JSON encoding, checked under SpecCodec.               *)
(***************************************************************************)
\* The decoded filter d behaves and prints as v does.
SameBehaviour(d, v) ==
    /\ repr(d) = repr(v)
    /\ \A r \in CodecRecords, checks \in BOOLEAN :
        apply_to(d, r, checks) = apply_to(v, r, checks)

\* TRUE iff f, at any depth, holds a Tag filter whose Float is not finite.
RECURSIVE HasNonFinite(_)
HasNonFinite(f) ==
    CASE f.type = "TagFilter" ->
            f.tag_value.kind = "Float" /\ f.tag_value.text \in {"NaN", "inf"}
      [] f.type = "CombinedFilter" -> HasNonFinite(f.filter1) \/ HasNonFinite(f.filter2)
      [] OTHER -> FALSE

\* C11: for every filter v of the seven variants, Combined ones nested, and
\* every whole catalog, decoding the encoding gives a value whose apply_to
\* result on the record and whose repr equal v's, and the encoding of a
\* Combined filter holds the full encoding of both sub-filters.
C11_RoundTrip ==
    (round_trip # NoCall) =>
        IF round_trip.whole
        THEN /\ ~round_trip.decoded.panicked
             /\ DOMAIN round_trip.decoded.value = DOMAIN config
             /\ \A k \in DOMAIN config : SameBehaviour(round_trip.decoded.value[k], config[k])
        ELSE /\ ~round_trip.decoded.panicked
             /\ round_trip.result = result
             /\ round_trip.repr = Ret(repr(filter))
             /\ (filter.type = "CombinedFilter" =>
                    /\ round_trip.encoded.filter1 = json_filter(filter.filter1)
                    /\ round_trip.encoded.filter2 = json_filter(filter.filter2))

\* The round trip holds for every filter and catalog without a Float that is
\* not finite, and fails to decode for every one with such a Float.
C11_ExceptNonFinite ==
    (round_trip # NoCall) =>
        IF round_trip.whole
        THEN IF \E k \in DOMAIN config : HasNonFinite(config[k])
             THEN round_trip.decoded.panicked
             ELSE /\ ~round_trip.decoded.panicked
                  /\ DOMAIN round_trip.decoded.value = DOMAIN config
                  /\ \A k \in DOMAIN config :
                        SameBehaviour(round_trip.decoded.value[k], config[k])
        ELSE IF HasNonFinite(filter)
             THEN round_trip.decoded.panicked
             ELSE /\ round_trip.decoded = Ret(filter)
                  /\ round_trip.result = result
                  /\ round_trip.repr = Ret(repr(filter))

(***************************************************************************)
(* SpecCatalog: Config::new, then push and get calls on the catalog.       *)
(***************************************************************************)
Keys == {"f", "g", "missing"}

\* Filters pushed in SpecCatalog; a filter's own name need not be its key.
PushedFilters ==
    { LengthFilter("f", 1, 2, FALSE), MapqFilter("g", 1, 2, TRUE),
      CombinedFilter("f", LengthFilter("f", 1, 2, FALSE),
                     MapqFilter("g", 1, 2, TRUE), "AND") }

NoGet == [called |-> FALSE]

Push ==
    /\ Len(pushes) < MaxPushes
    /\ \E key \in Keys \ {"missing"}, value \in PushedFilters :
        /\ config' = push(config, key, value)
        /\ pushes' = Append(pushes, [key |-> key, value |-> value])
    /\ got' = NoGet
    /\ UNCHANGED <<evalVars, cliVars, codecVars, applyVars>>

Get ==
    /\ \E key \in Keys :
        got' = [called |-> TRUE, key |-> key, value |-> get(config, key)]
    /\ UNCHANGED <<config, pushes, evalVars, cliVars, codecVars, applyVars>>

InitCatalog ==
    /\ EvalIdle
    /\ CliIdle
    /\ CodecIdle
    /\ ApplyIdle
    /\ config = Config_new
    /\ pushes = <<>>
    /\ got = NoGet

NextCatalog == Push \/ Get

SpecCatalog == InitCatalog /\ [][NextCatalog]_vars

\* The indices of the push calls made under key.
PushesOf(key) == { i \in 1 .. Len(pushes) : pushes[i].key = key }

Last(S) == CHOOSE i \in S : \A j \in S : j <= i

\* C1: after Config::new() and any sequence of push calls, get(n) returns
\* the filter most recently pushed under n, and None for a name never pushed.
C1_CatalogMap ==
    got.called =>
        IF PushesOf(got.key) = {}
        THEN got.value = None
        ELSE got.value = Some(pushes[Last(PushesOf(got.key))].value)

\* A get of a name pushed twice with different filters returns the second.
C1_Witness ==
    /\ got.called
    /\ Cardinality(PushesOf(got.key)) >= 2
    /\ \E i \in PushesOf(got.key) : pushes[i].value # pushes[Last(PushesOf(got.key))].value
    /\ got.value = Some(pushes[Last(PushesOf(got.key))].value)
    /\ count(config) = 2

(***************************************************************************)
(* Spec: the commands of main.rs run on the catalog file, one after the    *)
(* other, by process 1.  A command is a sequence of steps, one per access  *)
(* to the catalog file; an unwrap of a failed step ends the command with   *)
(* a panic.                                                                *)
(***************************************************************************)
\* The name given on the command line, or None.
NameOptions == {Some("f"), Some("g"), None}

\* Both create_filter and combine_filters fall back on this name.
DefaultName == "combined filter 1"

name_or_default(filter_name) ==
    IF filter_name.some THEN filter_name.value ELSE DefaultName

\* The CreateCommands the model runs.
CreateCommands ==
    { [kind |-> "Length", min_len |-> 1, max_len |-> 2],
      [kind |-> "Tag", tag_name |-> "NM", tag_type |-> "Int", tag_value |-> "0"],
      [kind |-> "Tag", tag_name |-> "N", tag_type |-> "Int", tag_value |-> "0"],
      [kind |-> "Tag", tag_name |-> "NM", tag_type |-> "Char", tag_value |-> "x"],
      [kind |-> "Mapq", min_mapq |-> 1, max_mapq |-> 2],
      [kind |-> "RefName", ref_id |-> 0],
      [kind |-> "Nucleotide", position |-> 1, nucleotide |-> "A", n_is_wildcard |-> FALSE],
      [kind |-> "Nucleotide", position |-> 0, nucleotide |-> "A", n_is_wildcard |-> FALSE],
      [kind |-> "Nucleotide", position |-> 1, nucleotide |-> "X", n_is_wildcard |-> FALSE],
      [kind |-> "Flag", remove_flags |-> DUPLICATE] }

\* The operators the model combines with.
CombineOperators == {"AND", "IMPLIES"}

\* The match of create_filter: the filter built from the arguments, or the
\* panic of a failed unwrap or assertion.
new_filter(name, opposite, args) ==
    CASE args.kind = "Length" ->
            Ret(LengthFilter(name, args.min_len, args.max_len, opposite))
      [] args.kind = "Tag" ->
            LET tag_value == convert_to_minimal_tag_value(args.tag_type, args.tag_value)
                tag_name  == str_to_tag_name(args.tag_name)
            IN  IF tag_value.panicked \/ tag_name.panicked THEN Panic
                ELSE Ret(TagFilter(name, tag_name.value, tag_value.value, opposite))
      [] args.kind = "Mapq" ->
            Ret(MapqFilter(name, args.min_mapq, args.max_mapq, opposite))
      [] args.kind = "RefName" -> Ret(RefNameFilter(name, args.ref_id, opposite))
      [] args.kind = "Nucleotide" ->
            NthNucleotideFilter_new(name, args.position, args.nucleotide,
                                    args.n_is_wildcard, opposite)
      [] args.kind = "Flag" -> Ret(FlagFilter(name, args.remove_flags, opposite))

\* The text of a catalog of two filters, f and g.
TwoFilters ==
    serialize_to_json(push(push(Config_new, "f", LengthFilter("f", 1, 2, FALSE)),
                           "g", MapqFilter("g", 1, 2, TRUE))).value

\* The files an import command is pointed at: none, a cut-off text, a text
\* with a filter type that is no struct name, a catalog of two filters, a
\* catalog whose NthNucleotide filter was written by hand, and one whose
\* Tag filter holds a number above f32::MAX.
ImportFiles ==
    { Absent, Partial,
      Complete([filters |-> [k \in {"g"} |->
                    [type |-> "Length", name |-> "g", min_len |-> 1, max_len |-> 2,
                     opposite |-> FALSE]]]),
      Complete(TwoFilters),
      Complete([filters |-> [k \in {"f"} |->
                    json_filter(NthNucleotideFilter("f", 0, "X", FALSE, FALSE))]]),
      Complete([filters |-> [k \in {"g"} |->
                    [type |-> "TagFilter", name |-> "g", tag_name |-> <<78, 77>>,
                     tag_value |-> [variant |-> "Float", num |-> 0, text |-> AboveF32,
                                    null |-> FALSE],
                     opposite |-> FALSE]]]) }

\* Process p starts a command.
Start(p) ==
    /\ pc[p] = "idle"
    /\ ncommands < MaxCommands

\* The command of process p ends: how is "ok" or "panic".
Exit(p, how) ==
    /\ pc' = [pc EXCEPT ![p] = "idle"]
    /\ done' = [done EXCEPT ![p] = how]

\* init: save_config of a new Config.
Init_(p) ==
    /\ Start(p)
    /\ ncommands' = ncommands + 1
    /\ cmd' = [cmd EXCEPT ![p] = [op |-> "init"]]
    /\ mem' = [mem EXCEPT ![p] = Config_new]
    /\ pc' = [pc EXCEPT ![p] = "save_open"]
    /\ save_call' = [save_call EXCEPT ![p] = "none"]
    /\ UNCHANGED <<file, prev_file, done, combined, last_saved,
                 evalVars, catVars, codecVars, applyVars>>

\* create_filter up to its call of store_filter.
CreateFilter(p) ==
    /\ Start(p)
    /\ ncommands' = ncommands + 1
    /\ save_call' = [save_call EXCEPT ![p] = "none"]
    /\ \E filter_name \in NameOptions, opposite \in BOOLEAN, args \in CreateCommands :
        LET name == name_or_default(filter_name)
            new  == new_filter(name, opposite, args)
        IN  IF new.panicked
            THEN /\ cmd' = [cmd EXCEPT ![p] = [op |-> "create"]]
                 /\ Exit(p, "panic")
            ELSE /\ cmd' = [cmd EXCEPT ![p] =
                        [op |-> "create", name |-> name, filter |-> new.value]]
                 /\ pc' = [pc EXCEPT ![p] = "store_load"]
                 /\ UNCHANGED done
    /\ UNCHANGED <<file, mem, prev_file, combined, last_saved,
                 evalVars, catVars, codecVars, applyVars>>

\* combine_filters up to its call of get_filters.
CombineFilters(p) ==
    /\ Start(p)
    /\ ncommands' = ncommands + 1
    /\ save_call' = [save_call EXCEPT ![p] = "none"]
    /\ \E combined_name \in NameOptions, filter1 \in {"f", "g"}, filter2 \in {"f", "g"},
          operator \in CombineOperators :
        cmd' = [cmd EXCEPT ![p] =
                   [op |-> "combine", name |-> name_or_default(combined_name),
                    filter1 |-> filter1, filter2 |-> filter2, operator |-> operator]]
    /\ pc' = [pc EXCEPT ![p] = "get_filters"]
    /\ UNCHANGED <<file, mem, prev_file, done, combined, last_saved,
                 evalVars, catVars, codecVars, applyVars>>

\* get_filters for combine_filters: load the catalog, get both filters, and
\* build the CombinedFilter from the copies.
GetFilters(p) ==
    /\ pc[p] = "get_filters"
    /\ LET loaded == load_config(file)
           f1_obj == get(loaded.value, cmd[p].filter1)
           f2_obj == get(loaded.value, cmd[p].filter2)
       IN  IF loaded.panicked \/ ~f1_obj.some \/ ~f2_obj.some
           THEN /\ Exit(p, "panic")
                /\ UNCHANGED cmd
           ELSE /\ cmd' = [cmd EXCEPT ![p] =
                       [op |-> "combine", name |-> cmd[p].name,
                        filter1 |-> cmd[p].filter1, filter2 |-> cmd[p].filter2,
                        operator |-> cmd[p].operator,
                        f1_obj |-> f1_obj.value, f2_obj |-> f2_obj.value,
                        filter |-> CombinedFilter(cmd[p].name, f1_obj.value,
                                                  f2_obj.value, cmd[p].operator)]]
                /\ pc' = [pc EXCEPT ![p] = "store_load"]
                /\ UNCHANGED done
    /\ UNCHANGED <<file, mem, save_call, prev_file, ncommands, combined, last_saved,
                 evalVars, catVars, codecVars, applyVars>>

\* store_filter up to its call of save_config: load the catalog and push.
StoreFilter(p) ==
    /\ pc[p] = "store_load"
    /\ LET loaded == load_config(file)
       IN  IF loaded.panicked
           THEN /\ Exit(p, "panic")
                /\ UNCHANGED mem
           ELSE /\ mem' = [mem EXCEPT ![p] = push(loaded.value, cmd[p].name, cmd[p].filter)]
                /\ pc' = [pc EXCEPT ![p] = "save_open"]
                /\ UNCHANGED done
    /\ UNCHANGED <<file, cmd, save_call, prev_file, ncommands, combined, last_saved,
                 evalVars, catVars, codecVars, applyVars>>

\* save_config, the open: the file is created if absent and truncated.  The
\* open can fail, and then the file is as it was.
SaveOpen(p) ==
    /\ pc[p] = "save_open"
    /\ prev_file' = [prev_file EXCEPT ![p] = file]
    /\ \E opened \in BOOLEAN :
        IF opened
        THEN /\ file' = Empty
             /\ save_call' = [save_call EXCEPT ![p] = "opened"]
             /\ pc' = [pc EXCEPT ![p] = "save_write"]
             /\ UNCHANGED done
        ELSE /\ save_call' = [save_call EXCEPT ![p] = "open_failed"]
             /\ Exit(p, "panic")
             /\ UNCHANGED file
    /\ UNCHANGED <<cmd, mem, ncommands, combined, last_saved,
                 evalVars, catVars, codecVars, applyVars>>

\* The history of combine commands after the command c has saved the
\* catalog: init and import replace the whole catalog, create replaces one
\* entry, and combine stores one Combined filter built from the copies
\* f1_obj and f2_obj that get returned.
recorded(history, c) ==
    LET others == [k \in DOMAIN history \ {c.name} |-> history[k]]
    IN  CASE c.op = "create" -> others
          [] c.op = "combine" ->
                [k \in DOMAIN others \cup {c.name} |->
                    IF k = c.name
                    THEN [filter1 |-> c.filter1, filter2 |-> c.filter2,
                          f1_obj |-> c.f1_obj, f2_obj |-> c.f2_obj,
                          operator |-> c.operator]
                    ELSE others[k]]
          [] OTHER -> <<>>

\* save_config, serialize_to_json and write_all on the opened file.  A
\* failed write leaves the bytes written before the error: none or some.
SaveWrite(p) ==
    /\ pc[p] = "save_write"
    /\ LET json_str == serialize_to_json(mem[p])
       IN  \E written \in {"all", "some", "none"} :
            IF ~json_str.panicked /\ written = "all"
            THEN /\ file' \in write_all(file, json_str.value)
                 /\ save_call' = [save_call EXCEPT ![p] = "completed"]
                 /\ combined' = recorded(combined, cmd[p])
                 /\ last_saved' = Some(json_str.value)
                 /\ Exit(p, "ok")
            ELSE /\ file' = IF ~json_str.panicked /\ written = "some" THEN Partial ELSE file
                 /\ save_call' = [save_call EXCEPT ![p] = "write_failed"]
                 /\ UNCHANGED <<combined, last_saved>>
                 /\ Exit(p, "panic")
    /\ UNCHANGED <<cmd, mem, prev_file, ncommands,
                 evalVars, catVars, codecVars, applyVars>>

\* import_filters up to its call of save_config: load the import file.
ImportFilters(p) ==
    /\ Start(p)
    /\ ncommands' = ncommands + 1
    /\ save_call' = [save_call EXCEPT ![p] = "none"]
    /\ \E import_file \in ImportFiles :
        LET loaded == load_config(import_file)
        IN  /\ cmd' = [cmd EXCEPT ![p] = [op |-> "import", import_file |-> import_file]]
            /\ IF loaded.panicked
               THEN /\ Exit(p, "panic")
                    /\ UNCHANGED mem
               ELSE /\ mem' = [mem EXCEPT ![p] = loaded.value]
                    /\ pc' = [pc EXCEPT ![p] = "save_open"]
                    /\ UNCHANGED done
    /\ UNCHANGED <<file, prev_file, combined, last_saved,
                 evalVars, catVars, codecVars, applyVars>>

\* export_filters to standard output, and view_filters: load the catalog
\* and print it.  The catalog file is only read.
ViewFilters(p) ==
    /\ Start(p)
    /\ ncommands' = ncommands + 1
    /\ save_call' = [save_call EXCEPT ![p] = "none"]
    /\ \E op \in {"export", "view"} : cmd' = [cmd EXCEPT ![p] = [op |-> op]]
    /\ LET loaded == load_config(file)
       IN  IF loaded.panicked
           THEN /\ Exit(p, "panic")
                /\ UNCHANGED mem
           ELSE /\ mem' = [mem EXCEPT ![p] = loaded.value]
                /\ Exit(p, "ok")
    /\ UNCHANGED <<file, prev_file, combined, last_saved,
                 evalVars, catVars, codecVars, applyVars>>

Init == EvalIdle /\ CatIdle /\ CliIdle /\ CodecIdle /\ ApplyIdle

Next ==
    \/ Init_(1)
    \/ CreateFilter(1)
    \/ CombineFilters(1)
    \/ GetFilters(1)
    \/ StoreFilter(1)
    \/ SaveOpen(1)
    \/ SaveWrite(1)
    \/ ImportFilters(1)
    \/ ViewFilters(1)

Spec == Init /\ [][Next]_vars

(***************************************************************************)
(* Properties of the commands, checked under Spec.                         *)
(***************************************************************************)
\* Every NthNucleotide filter in f, at any depth, has a non-zero position
\* and one of the five nucleotides.
RECURSIVE WellFormed(_)
WellFormed(f) ==
    CASE f.type = "NthNucleotideFilter" -> f.position # 0 /\ f.nucleotide \in Bases
      [] f.type = "CombinedFilter" -> WellFormed(f.filter1) /\ WellFormed(f.filter2)
      [] OTHER -> TRUE

\* C9: after any sequence of init, create, combine and import commands,
\* every NthNucleotide filter held in the persisted catalog, at top level or
\* inside a Combined filter, has position # 0 and a nucleotide among
\* A, C, G, T, N.
C9_DataModelInvariant ==
    (file.state = "complete" /\ ~load_config(file).panicked) =>
        \A k \in DOMAIN load_config(file).value : WellFormed(load_config(file).value[k])

\* C10: once a save_config call has ended, completed or failed at any step,
\* the file holds the complete new snapshot or the complete previous one
\* (stated for the calls that begin with a complete snapshot in the file).
C10_AllOrNothing ==
    \A p \in Procs :
        (save_call[p] \in {"completed", "open_failed", "write_failed"}
            /\ prev_file[p].state = "complete") =>
            \/ file = Complete(serialize_to_json(mem[p]).value)
            \/ file = prev_file[p]

\* What a Combined filter made of the filters f1 and f2 returns on r: the
\* operator on the two results, or the panic of either.
CombinedResult(operator, f1, f2, r, checks) ==
    LET result1 == apply_to(f1, r, checks)
        result2 == apply_to(f2, r, checks)
    IN  IF result1.panicked \/ result2.panicked THEN Panic
        ELSE Ret(Combine(operator, result1.value, result2.value))

\* C12: once combine has stored a filter c built from the entries f1 and f2,
\* whatever later commands store under f1 or f2, the persisted c returns on
\* every record what the operator gives on the results of the two filters
\* get returned at combine time.
C12_EmbeddedCopies ==
    (combined # <<>> /\ file.state = "complete") =>
        LET loaded == load_config(file)
        IN  /\ ~loaded.panicked
            /\ \A c \in DOMAIN combined :
                /\ c \in DOMAIN loaded.value
                /\ \A r \in CodecRecords :
                    apply_to(loaded.value[c], r, overflow_checks)
                        = CombinedResult(combined[c].operator, combined[c].f1_obj,
                                         combined[c].f2_obj, r, overflow_checks)

\* The entry f1 was overwritten after the combine, and the persisted c now
\* differs on some record from a combination of the entries as they are.
C12_Witness ==
    /\ file.state = "complete"
    /\ ~load_config(file).panicked
    /\ \E c \in DOMAIN combined :
        LET catalog == load_config(file).value
            f1 == combined[c].filter1
            f2 == combined[c].filter2
        IN  /\ c \in DOMAIN catalog
            /\ f1 \in DOMAIN catalog /\ f2 \in DOMAIN catalog
            /\ f1 # c /\ f2 # c
            /\ catalog[f1] # combined[c].f1_obj
            /\ f1 # f2
            /\ \E r \in CodecRecords :
                /\ ~apply_to(catalog[c], r, overflow_checks).panicked
                /\ apply_to(catalog[c], r, overflow_checks)
                    # CombinedResult(combined[c].operator, catalog[f1], catalog[f2], r,
                                     overflow_checks)

\* The import command of process 1 has ended and its save_config completed.
Imported ==
    /\ cmd[1].op = "import"
    /\ pc[1] = "idle"
    /\ done[1] = "ok"
    /\ save_call[1] = "completed"

\* This step starts an import command whose import file fails to load.
ImportFails ==
    /\ pc[1] = "idle"
    /\ ncommands' = ncommands + 1
    /\ cmd'[1].op = "import"
    /\ load_config(cmd'[1].import_file).panicked

\* C16: after import_filters has succeeded, the catalog loaded from the
\* catalog file is exactly the catalog decoded from the import file, so no
\* entry from before is left unless the import file holds it; and an import
\* whose import file fails to load leaves the catalog file as it was.
C16_ImportReplaces ==
    /\ [](Imported =>
            /\ ~load_config(cmd[1].import_file).panicked
            /\ load_config(file) = load_config(cmd[1].import_file))
    /\ [][ImportFails => (file' = file /\ pc'[1] = "idle")]_vars

\* C16 holds for every import file whose decoded catalog has no Float that
\* is not finite.
C16_ExceptNonFinite ==
    /\ [](Imported =>
            /\ ~load_config(cmd[1].import_file).panicked
            /\ (\A k \in DOMAIN load_config(cmd[1].import_file).value :
                    ~HasNonFinite(load_config(cmd[1].import_file).value[k])) =>
                  load_config(file) = load_config(cmd[1].import_file))
    /\ [][ImportFails => (file' = file /\ pc'[1] = "idle")]_vars

(***************************************************************************)
(* SpecConc: two processes each run one create or combine command on one   *)
(* catalog file, which holds the filters f and g.  Each step of a command  *)
(* is one access to the file, and the steps of the two processes           *)
(* interleave.                                                             *)
(***************************************************************************)
InitConc ==
    /\ EvalIdle /\ CatIdle /\ CodecIdle /\ ApplyIdle
    /\ file = Complete(TwoFilters)
    /\ pc = [p \in Procs |-> "idle"]
    /\ cmd = [p \in Procs |-> NoCommand]
    /\ mem = [p \in Procs |-> <<>>]
    /\ save_call = [p \in Procs |-> "none"]
    /\ prev_file = [p \in Procs |-> Absent]
    /\ done = [p \in Procs |-> "none"]
    /\ ncommands = 0
    /\ combined = <<>>
    /\ last_saved = None

NextConc ==
    \E p \in Procs :
        \/ done[p] = "none" /\ CreateFilter(p)
        \/ done[p] = "none" /\ CombineFilters(p)
        \/ GetFilters(p)
        \/ StoreFilter(p)
        \/ SaveOpen(p)
        \/ SaveWrite(p)

SpecConc == InitConc /\ [][NextConc]_vars

(***************************************************************************)
(* Properties of concurrent commands, checked under SpecConc.              *)
(***************************************************************************)
\* No command has ended in a panic: no open or write has failed.
NoPanic == \A q \in Procs : done[q] # "panic"

\* C13: while no command has panicked, a process that is about to load the
\* catalog finds a complete snapshot in the file, and once both processes
\* are done the file is exactly the snapshot of the save that completed last.
C13_LastWriterWins ==
    NoPanic =>
        /\ \A p \in Procs :
            pc[p] \in {"store_load", "get_filters"} => file.state = "complete"
        /\ ((\A p \in Procs : pc[p] = "idle") /\ last_saved.some) =>
                file = Complete(last_saved.value)

\* The second half of C13 alone: the file after the last save.
C13_FinalSnapshot ==
    (NoPanic /\ (\A p \in Procs : pc[p] = "idle") /\ last_saved.some) =>
        file = Complete(last_saved.value)

(***************************************************************************)
(* SpecApply: one pass of apply_filter over one input file, by process 1,  *)
(* on a catalog file that holds four filters.                              *)
(***************************************************************************)
\* The catalog of the pass: two leaf filters, a Combined filter of both,
\* and an NthNucleotide filter with position 0.
ApplyCatalog ==
    LET f == LengthFilter("f", 1, 2, FALSE)
        g == MapqFilter("g", 1, 2, TRUE)
        with_f == push(Config_new, "f", f)
        with_g == push(with_f, "g", g)
        with_c == push(with_g, "c", CombinedFilter("c", f, g, "XOR"))
    IN  push(with_c, "n", NthNucleotideFilter("n", 0, "A", FALSE, FALSE))

\* What the reader yields for one record: Ok(record), or Err of a read that
\* failed.
ApplyItems ==
    { [ok |-> TRUE, record |-> r] : r \in CodecRecords } \cup { [ok |-> FALSE] }

\* The input files: every sequence of at most MaxRecords items.
ApplySources == UNION { [1 .. n -> ApplyItems] : n \in 0 .. MaxRecords }

\* A writer that writes every record, whatever the filter returned.
Mutantforwarded(written, r, res) == Append(written, r)

\* if res { writer.write(&record) }: the records written after this one.
forwarded(written, r, res) == IF res THEN Append(written, r) ELSE written

\* apply_filter up to its loop: the two assertions, get_filters of the one
\* name, and the reader and the writer opened.  The writer starts a new
\* output file.
ApplyFilter(p) ==
    /\ Start(p)
    /\ ncommands' = ncommands + 1
    /\ save_call' = [save_call EXCEPT ![p] = "none"]
    /\ \E filter_name \in {"f", "g", "c", "n", "missing"}, suffix \in {"bam", "sam", "txt"},
          threads \in {0, 1}, input_file \in ApplySources :
        LET loaded == load_config(file)
            found  == IF loaded.panicked THEN None ELSE get(loaded.value, filter_name)
        IN  IF suffix \notin {"sam", "bam"} \/ threads = 0 \/ ~found.some
            THEN /\ cmd' = [cmd EXCEPT ![p] = [op |-> "apply"]]
                 /\ Exit(p, "panic")
                 /\ UNCHANGED applyVars
            ELSE /\ cmd' = [cmd EXCEPT ![p] = [op |-> "apply", filter |-> found.value]]
                 /\ pc' = [pc EXCEPT ![p] = "apply_loop"]
                 /\ source' = input_file
                 /\ evaluated' = 0
                 /\ sink' = <<>>
                 /\ finished' = FALSE
                 /\ UNCHANGED done
    /\ UNCHANGED <<file, mem, prev_file, combined, last_saved,
                 evalVars, catVars, codecVars>>

\* One turn of the loop: take the next item, unwrap it, apply the filter,
\* and write the record if the result is true.  A failed read, a panic in
\* apply_to and a failed write each end the command.
ApplyRecord(p) ==
    /\ pc[p] = "apply_loop"
    /\ evaluated < Len(source)
    /\ evaluated' = evaluated + 1
    /\ LET item == source[evaluated + 1]
           res  == IF item.ok THEN apply_to(cmd[p].filter, item.record, overflow_checks)
                   ELSE Panic
       IN  IF res.panicked
           THEN /\ Exit(p, "panic")
                /\ UNCHANGED sink
           ELSE \E wrote \in BOOLEAN :
                    IF wrote \/ ~res.value
                    THEN /\ sink' = forwarded(sink, item.record, res.value)
                         /\ UNCHANGED <<pc, done>>
                    ELSE /\ Exit(p, "panic")
                         /\ UNCHANGED sink
    /\ UNCHANGED <<file, cmd, mem, save_call, prev_file, ncommands, combined, last_saved,
                 source, finished, evalVars, catVars, codecVars>>

\* The reader is exhausted: writer.finish(), unwrapped.
ApplyFinish(p) ==
    /\ pc[p] = "apply_loop"
    /\ evaluated = Len(source)
    /\ \E flushed \in BOOLEAN :
        /\ finished' = flushed
        /\ Exit(p, IF flushed THEN "ok" ELSE "panic")
    /\ UNCHANGED <<file, cmd, mem, save_call, prev_file, ncommands, combined, last_saved,
                 source, evaluated, sink, evalVars, catVars, codecVars>>

InitApply ==
    /\ EvalIdle /\ CatIdle /\ CodecIdle /\ ApplyIdle
    /\ file = Complete(serialize_to_json(ApplyCatalog).value)
    /\ pc = [p \in Procs |-> "idle"]
    /\ cmd = [p \in Procs |-> NoCommand]
    /\ mem = [p \in Procs |-> <<>>]
    /\ save_call = [p \in Procs |-> "none"]
    /\ prev_file = [p \in Procs |-> Absent]
    /\ done = [p \in Procs |-> "none"]
    /\ ncommands = 0
    /\ combined = <<>>
    /\ last_saved = None

NextApply ==
    \/ done[1] = "none" /\ ApplyFilter(1)
    \/ ApplyRecord(1)
    \/ ApplyFinish(1)

SpecApply == InitApply /\ [][NextApply]_vars

(***************************************************************************)
(* Properties of the apply pass, checked under SpecApply.                  *)
(***************************************************************************)
\* The records among the first n items of the source on which f is true,
\* in source order.
RECURSIVE Matching(_, _)
Matching(f, n) ==
    IF n = 0 THEN <<>>
    ELSE LET item == source[n]
             res  == IF item.ok THEN apply_to(f, item.record, overflow_checks) ELSE Panic
         IN  IF ~res.panicked /\ res.value
             THEN Append(Matching(f, n - 1), item.record)
             ELSE Matching(f, n - 1)

\* The pass of process 1 has entered its loop.
InPass == cmd[1].op = "apply" /\ (pc[1] = "apply_loop" \/ evaluated > 0 \/ finished)

\* C14: in one pass over one source with one resolved filter, the records
\* written so far are the records, among the items taken so far, on which
\* apply_to is true, each once and in source order; the writer is finished
\* only after the last item has been evaluated, and then holds exactly the
\* matching records of the whole source; and while the loop runs, the
\* resolved filter and the catalog file stay as they are.
C14_Pipeline ==
    /\ [](InPass =>
            /\ pc[1] = "apply_loop" => sink = Matching(cmd[1].filter, evaluated)
            /\ finished =>
                /\ evaluated = Len(source)
                /\ sink = Matching(cmd[1].filter, Len(source)))
    /\ [][pc[1] = "apply_loop" => (file' = file /\ cmd'[1] = cmd[1])]_vars

\* A finished pass that wrote some of its records and dropped others.
C14_Witness ==
    /\ finished
    /\ done[1] = "ok"
    /\ Len(source) = MaxRecords
    /\ Len(sink) >= 1
    /\ Len(sink) < Len(source)
    /\ cmd[1].filter.type = "CombinedFilter"

====
